---- MODULE Spec2Model ----
(***************************************************************************)
(* Verification model of the ocreceipt ingestion job queue                 *)
(* (src/app/main.py): the in-memory upload queue, the background worker    *)
(* thread(s), the upload_jobs / receipts / receipt_images tables and the   *)
(* staged upload files.                                                    *)
(***************************************************************************)
EXTENDS Integers, Sequences, FiniteSets, TLC

\* ------------------------------------------------------------------ bounds
NumJobs == 2          \* upload jobs that are ever submitted
NumThreads == 2       \* worker threads that can be alive at the same time
MaxQueue == 2         \* cap on the length of _UPLOAD_QUEUE
MaxReceipts == 2      \* cap on the Receipt rows created for one job

\* ------------------------------------------------------- program constants
MaxErrorLen == 2000   \* main.py:1035  [:2000]
OcrFailedLen == 10    \* main.py:1035  len("OCR failed")
MissingLen == 24      \* main.py:985   len("Uploaded file is missing")

JobIds == 1..NumJobs
Threads == 1..NumThreads
NoThread == 0
NoJob == 0

\* lengths of str(exc) handed to _mark_upload_job_failed: empty and over-long
ErrLens == {0, MaxErrorLen + 500}

VARIABLES
    jobs,        \* upload_jobs table: job id -> row
    receipts,    \* receipts[j]: Receipt rows committed by processing job j
    images,      \* images[j]: ReceiptImage rows committed by processing job j
    blobs,       \* job ids whose staged upload file exists in UPLOADS_DIR
    queue,       \* _UPLOAD_QUEUE
    stop,        \* _UPLOAD_WORKER_STOP
    handle,      \* _UPLOAD_WORKER_THREAD (NoThread = None)
    lock,        \* holder of _UPLOAD_QUEUE_LOCK (NoThread = free)
    mainpc,      \* application lifecycle as seen by the event loop
    pc,          \* pc[w]: position of worker thread w
    cur,         \* cur[w]: job_id local of worker thread w
    outcome,     \* outcome[w]: how w's last call of _process_upload_job ended
    dels,        \* dels[w]: _delete_receipt_image calls made by that call
    unlinkErr,   \* unlinkErr[w]: that call's unlink raised and was swallowed
    startOrder,  \* threads that popped an id and have not yet called _process_upload_job
    atStop,      \* threads that were inside _process_upload_job when stop was last set
    inp,         \* the input of the last request or function application
    out,         \* its response or result
    login_attempts,       \* _LOGIN_ATTEMPTS: throttle key -> times of failed logins
    login_blocked_until,  \* _LOGIN_BLOCKED_UNTIL: throttle key -> time (NoTime = no entry)
    clock,       \* the current time
    flight,      \* flight[r]: the login request that handler thread r is serving
    users,       \* users table: user id -> row
    sessions,    \* user_sessions table: session token -> row
    tokens,      \* api_tokens table: token -> row
    issued       \* the secrets that secrets.token_urlsafe has returned so far

vars == <<jobs, receipts, images, blobs, queue, stop, handle, lock, mainpc,
          pc, cur, outcome, dels, unlinkErr, startOrder, atStop, inp, out,
          login_attempts, login_blocked_until, clock, flight, users, sessions, tokens,
          issued>>

dbVars == <<jobs, receipts, images>>
ghostVars == <<outcome, dels, unlinkErr, startOrder, atStop>>
ioVars == <<inp, out>>
throttleVars == <<login_attempts, login_blocked_until, flight>>
authVars == <<users, sessions, tokens, issued>>

\* no request made, no function applied yet
NoInput == [kind |-> "none"]
NoOutput == [kind |-> "none"]

\* ------------------------------------------------------------------ rows
\* status "none": the id has not been issued yet; "deleted": the row was
\* removed out of band (ON DELETE CASCADE of its owner, models.py:40).
NoRow == [status |-> "none", receipt_id |-> 0, error_len |-> 0,
          started_at |-> FALSE, completed_at |-> FALSE]

NewJobRow == [status |-> "queued", receipt_id |-> 0, error_len |-> 0,
              started_at |-> FALSE, completed_at |-> FALSE]

RowExists(j) == jobs[j].status \notin {"none", "deleted"}

IsProcessableBroad(status) == status \in {"queued", "processing", "failed"}
IsProcessableNarrow(status) == status = "processing"
\* main.py:973  job.status not in {"queued", "processing"} -> return
IsProcessable(status) == status \in {"queued", "processing"}

PendingIdsQueuedOnly == {j \in JobIds : jobs[j].status = "queued"}
\* main.py:944  UploadJob.status.in_(["queued", "processing"])
PendingIds == {j \in JobIds : jobs[j].status \in {"queued", "processing"}}

\* main.py:1035  (error or "OCR failed")[:2000]
ErrorMessageLen(e) ==
    IF e = 0 THEN OcrFailedLen ELSE IF e > MaxErrorLen THEN MaxErrorLen ELSE e

\* every order in which a status scan without ORDER BY can return the ids
Orders(S) ==
    {s \in [1..Cardinality(S) -> S] : \A a, b \in 1..Cardinality(S) : a # b => s[a] # s[b]}

Range(s) == {s[i] : i \in 1..Len(s)}

Without(s, x) == SelectSeq(s, LAMBDA y : y # x)

Alive(w) == pc[w] # "idle"

\* positions inside _process_upload_job (after the call at main.py:965)
InsidePcs == {"missing", "ocr", "persist", "except", "finally", "finally_raise"}
Inside(w) == pc[w] \in InsidePcs

\* --------------------------------------------- authentication state
MaxTime == 4          \* the clock runs from 1 to MaxTime
NumHandlers == 2      \* login requests that can be in progress at the same time
NumUsers == 2
NoTime == 0           \* main.py:1098  dict.get without entry
Handlers == 1..NumHandlers
UserIds == 1..NumUsers

\* main.py:194  f"{client ip}:{username}" for two clients of the same name
ThrottleKeys == {"10.0.0.1:alice", "10.0.0.2:alice"}
NoRequest == [stage |-> "idle"]

\* models.py  users: user 1 is the bootstrap admin, user 2 an ordinary user
NoUser == [exists |-> FALSE, is_active |-> FALSE, role |-> ""]
BootstrapUsers ==
    [u \in UserIds |->
        [exists |-> TRUE, is_active |-> TRUE, role |-> IF u = 1 THEN "admin" ELSE "view"]]

SessionTokens == {"s1", "s2"}
NoSession == [user_id |-> 0, expires_at |-> NoTime]
ApiTokens == {"t1"}
NoToken == [exists |-> FALSE, revoked |-> FALSE, scope |-> "", created_by_user_id |-> 0]

\* ------------------------------------------------------------------ Init
\* the queue, the tables and the threads of a process that has just been loaded
IdleSystem ==
    /\ jobs = [j \in JobIds |-> NoRow]
    /\ receipts = [j \in JobIds |-> 0]
    /\ images = [j \in JobIds |-> 0]
    /\ blobs = {}
    /\ queue = <<>>
    /\ stop = FALSE
    /\ handle = NoThread
    /\ lock = NoThread
    /\ mainpc = "down"
    /\ pc = [w \in Threads |-> "idle"]
    /\ cur = [w \in Threads |-> NoJob]
    /\ outcome = [w \in Threads |-> "none"]
    /\ dels = [w \in Threads |-> 0]
    /\ unlinkErr = [w \in Threads |-> FALSE]
    /\ startOrder = <<>>
    /\ atStop = {}
    /\ login_attempts = [k \in ThrottleKeys |-> <<>>]
    /\ login_blocked_until = [k \in ThrottleKeys |-> NoTime]
    /\ clock = 1
    /\ flight = [r \in Handlers |-> NoRequest]
    /\ users = BootstrapUsers
    /\ sessions = [t \in SessionTokens |-> NoSession]
    /\ tokens = [t \in ApiTokens |-> NoToken]
    /\ issued = {}

Init ==
    /\ IdleSystem
    /\ inp = NoInput
    /\ out = NoOutput

\* ------------------------------------------------- event loop (main thread)
\* main.py:306-328, 927-939: a valid upload stages the file, commits the job
\* row with status "queued" and appends its id under the queue lock.
AcceptUpload(j) ==
    /\ mainpc = "up"
    /\ jobs[j].status = "none"
    /\ \A i \in JobIds : i < j => jobs[i].status # "none"
    /\ lock = NoThread
    /\ Len(queue) < MaxQueue
    /\ jobs' = [jobs EXCEPT ![j] = NewJobRow]
    /\ blobs' = blobs \cup {j}
    /\ queue' = Append(queue, j)
    /\ UNCHANGED <<receipts, images, stop, handle, mainpc, pc, cur, lock>>
    /\ UNCHANGED ghostVars

\* main.py:287-328 for a non-empty image or PDF whose job row is committed
upload_receipt(j) ==
    /\ AcceptUpload(j)
    /\ UNCHANGED <<ioVars, throttleVars, clock, authVars>>

\* main.py:240-248: startup handler up to Thread.start(); the re-enqueue of
\* main.py:249 is the separate step _requeue_incomplete_upload_jobs below.
_start_upload_worker ==
    /\ mainpc = "down"
    /\ Len(queue) + Cardinality(PendingIds) <= MaxQueue
    /\ IF handle # NoThread /\ Alive(handle)
       THEN /\ mainpc' = "up"
            /\ UNCHANGED <<stop, handle, pc, cur, outcome, dels, unlinkErr, atStop>>
       ELSE /\ \E w \in Threads :
                /\ ~Alive(w)
                /\ \A v \in Threads : v < w => Alive(v)
                /\ stop' = FALSE
                /\ handle' = w
                /\ pc' = [pc EXCEPT ![w] = "loop"]
                /\ cur' = [cur EXCEPT ![w] = NoJob]
                /\ outcome' = [outcome EXCEPT ![w] = "none"]
                /\ dels' = [dels EXCEPT ![w] = 0]
                /\ unlinkErr' = [unlinkErr EXCEPT ![w] = FALSE]
            /\ atStop' = {}
            /\ mainpc' = "starting"
    /\ UNCHANGED <<jobs, receipts, images, blobs, queue, lock, startOrder>>
    /\ UNCHANGED <<ioVars, throttleVars, clock, authVars>>

\* main.py:942-950: scan for queued/processing ids, append them under the lock.
_requeue_incomplete_upload_jobs ==
    /\ mainpc = "starting"
    /\ IF PendingIds = {}
       THEN UNCHANGED queue
       ELSE /\ lock = NoThread
            /\ \E s \in Orders(PendingIds) : queue' = queue \o s
    /\ mainpc' = "up"
    /\ UNCHANGED <<jobs, receipts, images, blobs, stop, handle, lock, pc, cur>>
    /\ UNCHANGED ghostVars
    /\ UNCHANGED <<ioVars, throttleVars, clock, authVars>>

\* main.py:254: shutdown handler sets the stop event.
_stop_upload_worker_set ==
    /\ mainpc = "up"
    /\ stop' = TRUE
    /\ mainpc' = "stopping"
    /\ atStop' = {w \in Threads : Inside(w)}
    /\ UNCHANGED <<jobs, receipts, images, blobs, queue, handle, lock, pc, cur>>
    /\ UNCHANGED <<outcome, dels, unlinkErr, startOrder>>
    /\ UNCHANGED <<ioVars, throttleVars, clock, authVars>>

\* main.py:255-261: notify_all under the lock, join(timeout=2), the handle is
\* dropped.  A thread that is not handling a job leaves wait(timeout=0.5) and
\* returns within the 2 s, so the join ends with the thread exited; it times
\* out only on a thread that is busy with a popped job.
_stop_upload_worker_join ==
    /\ mainpc = "stopping"
    /\ lock = NoThread
    /\ handle # NoThread => (~Alive(handle) \/ pc[handle] = "call" \/ Inside(handle))
    /\ handle' = NoThread
    /\ mainpc' = "down"
    /\ UNCHANGED <<jobs, receipts, images, blobs, queue, stop, lock, pc, cur>>
    /\ UNCHANGED ghostVars
    /\ UNCHANGED <<ioVars, throttleVars, clock, authVars>>

\* The process ends (kill, power loss, or its exit after the shutdown handler:
\* the worker is a daemon thread, main.py:247, and ends with the process) and
\* a new one is started: module globals are re-created (main.py:72-76),
\* tables and files survive.
Crash ==
    /\ queue' = <<>>
    /\ stop' = FALSE
    /\ handle' = NoThread
    /\ lock' = NoThread
    /\ mainpc' = "down"
    /\ pc' = [w \in Threads |-> "idle"]
    /\ cur' = [w \in Threads |-> NoJob]
    /\ outcome' = [w \in Threads |-> "none"]
    /\ dels' = [w \in Threads |-> 0]
    /\ unlinkErr' = [w \in Threads |-> FALSE]
    /\ startOrder' = <<>>
    /\ atStop' = {}
    /\ UNCHANGED <<jobs, receipts, images, blobs>>
    /\ UNCHANGED <<ioVars, throttleVars, clock, authVars>>

\* main.py:728-740 with models.py:40: deleting the owning user removes the
\* job row (ON DELETE CASCADE); the staged file and queue entries stay.
admin_delete_user(j) ==
    /\ mainpc = "up"
    /\ RowExists(j)
    /\ jobs' = [jobs EXCEPT ![j] = [NoRow EXCEPT !.status = "deleted"]]
    /\ UNCHANGED <<receipts, images, blobs, queue, stop, handle, lock, mainpc, pc, cur>>
    /\ UNCHANGED ghostVars
    /\ UNCHANGED <<ioVars, throttleVars, clock, authVars>>

\* ------------------------------------------------------- worker thread w
\* the locals of thread w after a step: position, job_id, and the
\* record of how the current call of _process_upload_job went
SetThread(w, p, c, o, d, u) ==
    /\ pc' = [pc EXCEPT ![w] = p]
    /\ cur' = [cur EXCEPT ![w] = c]
    /\ outcome' = [outcome EXCEPT ![w] = o]
    /\ dels' = [dels EXCEPT ![w] = d]
    /\ unlinkErr' = [unlinkErr EXCEPT ![w] = u]
    /\ atStop' = IF p \in InsidePcs THEN atStop ELSE atStop \ {w}
    /\ UNCHANGED <<ioVars, throttleVars, clock, authVars>>

Goto(w, p) == SetThread(w, p, cur[w], outcome[w], dels[w], unlinkErr[w])

\* _process_upload_job returns to the loop at main.py:954
Return(w, o) == SetThread(w, "loop", cur[w], o, dels[w], unlinkErr[w])

\* An exception leaves _process_upload_job and _upload_worker_loop (neither
\* has a handler around the call at main.py:965): the thread ends.
ThreadDies(w) == SetThread(w, "idle", NoJob, "crashed", 0, FALSE)

\* main.py:954-956: loop test, then acquire the queue lock.
WorkerLoopTop(w) ==
    /\ pc[w] = "loop"
    /\ IF stop
       THEN /\ SetThread(w, "idle", NoJob, "none", 0, FALSE)
            /\ UNCHANGED lock
       ELSE /\ lock = NoThread
            /\ lock' = w
            /\ SetThread(w, "check", NoJob, "none", 0, FALSE)
    /\ UNCHANGED <<jobs, receipts, images, blobs, queue, stop, handle, mainpc,
                   startOrder>>

\* a test at main.py:957-960 that does not look at the stop event
WorkerCheckIgnoresStop(w) ==
    /\ pc[w] = "check"
    /\ lock = w
    /\ IF queue = <<>>
       THEN Goto(w, "waiting") /\ lock' = NoThread
       ELSE Goto(w, "pop") /\ UNCHANGED lock
    /\ UNCHANGED <<jobs, receipts, images, blobs, queue, stop, handle, mainpc,
                   startOrder>>

\* main.py:957-960, holding the lock: wait (releasing the lock), return on
\* stop, or go on to the pop.
WorkerCheck(w) ==
    /\ pc[w] = "check"
    /\ lock = w
    /\ IF queue = <<>> /\ ~stop
       THEN Goto(w, "waiting") /\ lock' = NoThread
       ELSE IF stop
       THEN Goto(w, "idle") /\ lock' = NoThread
       ELSE Goto(w, "pop") /\ UNCHANGED lock
    /\ UNCHANGED <<jobs, receipts, images, blobs, queue, stop, handle, mainpc,
                   startOrder>>

\* a pop that keeps the queue lock while the popped job is processed
WorkerPopKeepsLock(w) ==
    /\ pc[w] = "pop"
    /\ lock = w
    /\ IF queue # <<>>
       THEN /\ SetThread(w, "call", Head(queue), "none", 0, FALSE)
            /\ queue' = Tail(queue)
            /\ startOrder' = Append(startOrder, w)
            /\ UNCHANGED lock
       ELSE /\ Goto(w, "loop")
            /\ lock' = NoThread
            /\ UNCHANGED <<queue, startOrder>>
    /\ UNCHANGED <<jobs, receipts, images, blobs, stop, handle, mainpc>>

\* main.py:961-962, still holding the lock: pop the head of the queue.  The
\* stop event is set without the lock (main.py:254), so it can have been set
\* since the test at main.py:959.
WorkerPop(w) ==
    /\ pc[w] = "pop"
    /\ lock = w
    /\ lock' = NoThread
    /\ IF queue # <<>>
       THEN /\ SetThread(w, "call", Head(queue), "none", 0, FALSE)
            /\ queue' = Tail(queue)
            /\ startOrder' = Append(startOrder, w)
       ELSE /\ Goto(w, "loop")
            /\ UNCHANGED <<queue, startOrder>>
    /\ UNCHANGED <<jobs, receipts, images, blobs, stop, handle, mainpc>>

\* main.py:958: Condition.wait(timeout=0.5) returns on notify or on timeout
\* and re-acquires the lock.
WorkerWake(w) ==
    /\ pc[w] = "waiting"
    /\ lock = NoThread
    /\ lock' = w
    /\ Goto(w, "check")
    /\ UNCHANGED <<jobs, receipts, images, blobs, queue, stop, handle, mainpc,
                   startOrder>>

\* main.py:1028-1037: the row _mark_upload_job_failed commits, message length e.
MarkFailedRow(row, e) ==
    [row EXCEPT !.status = "failed", !.completed_at = TRUE, !.error_len = ErrorMessageLen(e)]

\* main.py:976-980: the row the first commit writes.
MarkProcessingRow(row) ==
    [row EXCEPT !.status = "processing", !.started_at = TRUE, !.error_len = 0]

\* main.py:965, 969-984: call _process_upload_job; look the job up and return
\* when it is missing or not queued/processing; commit status "processing";
\* re-read the expired row and test the staged file.  The three database
\* round trips are taken as one step.
ProcBegin(w) ==
    /\ pc[w] = "call"
    /\ startOrder' = Without(startOrder, w)
    /\ \/ /\ ThreadDies(w)                     \* the SELECT or the first commit raises
          /\ UNCHANGED jobs
       \/ /\ ~(RowExists(cur[w]) /\ IsProcessable(jobs[cur[w]].status))
          /\ Return(w, "noop")
          /\ UNCHANGED jobs
       \/ /\ RowExists(cur[w]) /\ IsProcessable(jobs[cur[w]].status)
          /\ jobs' = [jobs EXCEPT ![cur[w]] = MarkProcessingRow(@)]
          /\ \/ ThreadDies(w)                  \* the re-read at main.py:982 raises
             \/ Goto(w, IF cur[w] \in blobs THEN "ocr" ELSE "missing")
    /\ UNCHANGED <<receipts, images, blobs, queue, stop, handle, lock, mainpc>>

\* main.py:984-986: the staged file is missing: mark the job failed and
\* return (this path has no finally clause).
ProcMissing(w) ==
    /\ pc[w] = "missing"
    /\ \/ /\ RowExists(cur[w])
          /\ jobs' = [jobs EXCEPT ![cur[w]] = MarkFailedRow(@, MissingLen)]
          /\ Return(w, "missing")
       \/ /\ ~RowExists(cur[w])                \* main.py:1031-1032
          /\ Return(w, "gone")
          /\ UNCHANGED jobs
       \/ /\ ThreadDies(w)                     \* _mark_upload_job_failed raises
          /\ UNCHANGED jobs
    /\ UNCHANGED <<receipts, images, blobs, queue, stop, handle, lock, mainpc, startOrder>>

\* main.py:989-992: read the staged bytes, run OCR and field extraction.
ProcOcr(w) ==
    /\ pc[w] = "ocr"
    /\ \/ /\ cur[w] \in blobs
          /\ Goto(w, "persist")
       \/ Goto(w, "except")                    \* read_bytes or OCR raises
    /\ UNCHANGED <<jobs, receipts, images, blobs, queue, stop, handle, lock, mainpc,
                   startOrder>>

\* main.py:994-1019: Receipt and ReceiptImage rows, job completed with its
\* receipt_id, one commit.  error_message was loaded as None at main.py:982,
\* so the assignment at main.py:1017 is no change and the UPDATE leaves the
\* column as it is.
ProcPersist(w) ==
    /\ pc[w] = "persist"
    /\ \/ /\ RowExists(cur[w])
          /\ receipts[cur[w]] < MaxReceipts
          /\ receipts' = [receipts EXCEPT ![cur[w]] = @ + 1]
          /\ images' = [images EXCEPT ![cur[w]] = @ + 1]
          /\ jobs' = [jobs EXCEPT ![cur[w]] =
                        [@ EXCEPT !.receipt_id = receipts[cur[w]] + 1,
                                  !.status = "completed",
                                  !.completed_at = TRUE]]
          /\ SetThread(w, "finally", cur[w], "completed", 0, FALSE)
       \/ /\ Goto(w, "except")                 \* flush, file write or commit raises
          /\ UNCHANGED <<jobs, receipts, images>>
    /\ UNCHANGED <<blobs, queue, stop, handle, lock, mainpc, startOrder>>

\* main.py:1020-1023: rollback, _mark_upload_job_failed(job_id, str(exc)).
ProcExcept(w) ==
    /\ pc[w] = "except"
    /\ \/ /\ RowExists(cur[w])
          /\ \E e \in ErrLens : jobs' = [jobs EXCEPT ![cur[w]] = MarkFailedRow(@, e)]
          /\ SetThread(w, "finally", cur[w], "failed", 0, FALSE)
       \/ /\ ~RowExists(cur[w])                \* main.py:1031-1032
          /\ SetThread(w, "finally", cur[w], "gone", 0, FALSE)
          /\ UNCHANGED jobs
       \/ /\ SetThread(w, "finally_raise", cur[w], "none", 0, FALSE)
          /\ UNCHANGED jobs                    \* rollback or the write raises
    /\ UNCHANGED <<receipts, images, blobs, queue, stop, handle, lock, mainpc,
                   startOrder>>

\* a finally clause that counts a deletion but leaves the staged file in place
ProcFinallyKeepsFile(w) ==
    /\ pc[w] \in {"finally", "finally_raise"}
    /\ IF pc[w] = "finally"
       THEN SetThread(w, "loop", cur[w], outcome[w], dels[w] + 1, FALSE)
       ELSE ThreadDies(w)
    /\ UNCHANGED <<jobs, receipts, images, blobs, queue, stop, handle, lock, mainpc,
                   startOrder>>

\* main.py:1024-1025 with 890-895: the finally clause calls
\* _delete_receipt_image (unlink(missing_ok=True), any exception swallowed),
\* then the function returns or the pending exception goes on.
ProcFinally(w) ==
    /\ pc[w] \in {"finally", "finally_raise"}
    /\ \E failed \in {FALSE} \cup {f \in {TRUE} : cur[w] \in blobs} :
          /\ blobs' = IF failed THEN blobs ELSE blobs \ {cur[w]}
          /\ IF pc[w] = "finally"
             THEN SetThread(w, "loop", cur[w], outcome[w], dels[w] + 1, failed)
             ELSE ThreadDies(w)
    /\ UNCHANGED <<jobs, receipts, images, queue, stop, handle, lock, mainpc,
                   startOrder>>

Worker(w) ==
    \/ WorkerLoopTop(w)
    \/ WorkerCheck(w)
    \/ WorkerPop(w)
    \/ WorkerWake(w)
    \/ ProcBegin(w)
    \/ ProcMissing(w)
    \/ ProcOcr(w)
    \/ ProcPersist(w)
    \/ ProcExcept(w)
    \/ ProcFinally(w)

Next ==
    \/ \E j \in JobIds : upload_receipt(j)
    \/ _start_upload_worker
    \/ _requeue_incomplete_upload_jobs
    \/ _stop_upload_worker_set
    \/ _stop_upload_worker_join
    \/ Crash
    \/ \E j \in JobIds : admin_delete_user(j)
    \/ \E w \in Threads : Worker(w)

Spec == Init /\ [][Next]_vars

\* main.py:252-261 when the worker thread ends within join(timeout=2): it was
\* waiting, or it finishes the job it is handling in time.
_stop_upload_worker_joined ==
    /\ handle # NoThread => ~Alive(handle)
    /\ _stop_upload_worker_join

\* The lifecycle with shutdowns whose join does not time out, so that the
\* worker started by _start_upload_worker is the only live worker thread.
LiveNext ==
    \/ \E j \in JobIds : upload_receipt(j)
    \/ _start_upload_worker
    \/ _requeue_incomplete_upload_jobs
    \/ _stop_upload_worker_set
    \/ _stop_upload_worker_joined
    \/ Crash
    \/ \E j \in JobIds : admin_delete_user(j)
    \/ \E w \in Threads : Worker(w)

\* Scheduling: a live thread keeps being scheduled and gets the queue lock
\* again and again (the lock is only held for one queue operation, and
\* wait(timeout=0.5) returns by itself); the startup handler, once the thread
\* is started, goes on to the re-enqueue.
LiveSpec ==
    /\ Init
    /\ [][LiveNext]_vars
    /\ \A w \in Threads : SF_vars(Worker(w))
    /\ SF_vars(_requeue_incomplete_upload_jobs)

\* ------------------------------------------------- POST /receipts/upload
\* content types and file names a client can send
ContentTypes == {"image/png", "Application/PDF", "text/plain", ""}
FileNames == {"scan.PDF", "scan.pdf", "photo.jpg", "notes.txt"}

\* str.lower() on the strings above
Lower(x) == IF x = "Application/PDF" THEN "application/pdf" ELSE x

\* Path(name).suffix.lower()
SuffixLower(name) ==
    CASE name = "scan.PDF" -> ".pdf"
      [] name = "scan.pdf" -> ".pdf"
      [] name = "photo.jpg" -> ".jpg"
      [] name = "notes.txt" -> ".txt"

IsImageLoose(content_type) == Lower(content_type) # "application/pdf"
\* main.py:292  content_type.startswith("image/")
IsImage(content_type) == Lower(content_type) \in {"image/png"}

\* main.py:291  content type application/pdf or suffix .pdf
IsPdf(content_type, name) ==
    Lower(content_type) = "application/pdf" \/ SuffixLower(name) = ".pdf"

HttpResponse(code, detail) == [kind |-> "http", status |-> code, detail |-> detail]

\* main.py:287-328: the whole handler for one authenticated submission with
\* content type ct, file name name and empty or non-empty bytes; commitFails
\* is the outcome of db.commit() at main.py:320.  On a failed commit the
\* staged file is removed again (main.py:324) and no row and no queue entry
\* exist.
upload_request(ct, name, empty, commitFails) ==
    /\ mainpc = "up"
    /\ inp' = [kind |-> "upload", content_type |-> ct, name |-> name, empty |-> empty]
    /\ IF ~IsImage(ct) /\ ~IsPdf(ct, name)
       THEN /\ out' = HttpResponse(400, "Only image and PDF uploads are supported")
            /\ UNCHANGED <<jobs, receipts, images, blobs, queue, stop, handle, lock,
                           mainpc, pc, cur, ghostVars,
                   throttleVars, clock, authVars>>
       ELSE IF empty
       THEN /\ out' = HttpResponse(400, "Uploaded file is empty")
            /\ UNCHANGED <<jobs, receipts, images, blobs, queue, stop, handle, lock,
                           mainpc, pc, cur, ghostVars,
                   throttleVars, clock, authVars>>
       ELSE IF commitFails
       THEN /\ out' = HttpResponse(500, "Failed to create upload job")
            /\ UNCHANGED <<jobs, receipts, images, blobs, queue, stop, handle, lock,
                           mainpc, pc, cur, ghostVars,
                   throttleVars, clock, authVars>>
       ELSE /\ out' = HttpResponse(202, "queued")
            /\ \E j \in JobIds : AcceptUpload(j)
            /\ UNCHANGED <<throttleVars, clock, authVars>>

\* The single-worker lifecycle with the upload handler taking every kind of
\* submission.
UploadNext ==
    \/ \E ct \in ContentTypes, name \in FileNames, empty \in BOOLEAN, commitFails \in BOOLEAN :
           upload_request(ct, name, empty, commitFails)
    \/ _start_upload_worker
    \/ _requeue_incomplete_upload_jobs
    \/ _stop_upload_worker_set
    \/ _stop_upload_worker_joined
    \/ Crash
    \/ \E w \in Threads : Worker(w)

UploadSpec == Init /\ [][UploadNext]_vars

\* ------------------------------------------------ field extraction (ocr.py)
\* Amounts are in cents, confidences and scores in thousandths of a point,
\* the aggregated confidence in hundredths (two decimals); arithmetic is exact.
MaxLines == 3         \* lines of OCR text in one input

None == [some |-> FALSE, v |-> 0]
Some(x) == [some |-> TRUE, v |-> x]

\* OCR text lines the inputs are built from
LineTexts ==
    {"WALMART", "WALMART 027825", "01/15/2024", "SUBTOTAL 9.25", "TAX 0.75", "TAX 30.00",
     "TAX RATE 8.25%", "TOTAL 10.00", "TOTAL 100.00", "ITEM 5.00", "PAID $5.00 20.00"}

\* line confidences (thousandths) and pass confidences the inputs use
LineConfs == {40000, 70125, 100000}
PassConfs == {60000, 100000}

\* ocr.py:26, 486-516  _extract_amount_candidates: the matches of
\* AMOUNT_TOKEN_PATTERN in the digit-normalised line, in order of position
\* ("$" in the token gives has_currency).
AmountCandidates(t) ==
    CASE t = "SUBTOTAL 9.25" -> <<[value |-> 925, is_percent |-> FALSE, has_currency |-> FALSE]>>
      [] t = "TAX 0.75" -> <<[value |-> 75, is_percent |-> FALSE, has_currency |-> FALSE]>>
      [] t = "TAX 30.00" -> <<[value |-> 3000, is_percent |-> FALSE, has_currency |-> FALSE]>>
      [] t = "TAX RATE 8.25%" -> <<[value |-> 825, is_percent |-> TRUE, has_currency |-> FALSE]>>
      [] t = "TOTAL 10.00" -> <<[value |-> 1000, is_percent |-> FALSE, has_currency |-> FALSE]>>
      [] t = "TOTAL 100.00" -> <<[value |-> 10000, is_percent |-> FALSE, has_currency |-> FALSE]>>
      [] t = "ITEM 5.00" -> <<[value |-> 500, is_percent |-> FALSE, has_currency |-> FALSE]>>
      [] t = "TOTAL 10.10" -> <<[value |-> 1010, is_percent |-> FALSE, has_currency |-> FALSE]>>
      [] t = "PAID $5.00 20.00" ->
            <<[value |-> 500, is_percent |-> FALSE, has_currency |-> TRUE],
              [value |-> 2000, is_percent |-> FALSE, has_currency |-> FALSE]>>
      [] OTHER -> <<>>

\* substring tests on line.lower()
HasTaxKeyword(t) == t \in {"TAX 0.75", "TAX 30.00", "TAX RATE 8.25%"}        \* ocr.py:401
HasSubtotalKeyword(t) == t = "SUBTOTAL 9.25"                                 \* ocr.py:430
HasPriorityKeyword(t) ==                                                     \* ocr.py:427
    t \in {"TOTAL 10.00", "TOTAL 10.10", "TOTAL 100.00", "SUBTOTAL 9.25"}
HasIgnoreKeyword(t) ==                                                       \* ocr.py:428
    t \in {"SUBTOTAL 9.25", "TAX 0.75", "TAX 30.00", "TAX RATE 8.25%"}
HasDateKeyword(t) == t \in {}                                                \* ocr.py:378
Blacklisted(t) == t \in {}                                                   \* ocr.py:353
MatchesDatePattern(t) == t = "01/15/2024"                                    \* ocr.py:20-24
Letters(t) ==                                                                \* ocr.py:358
    CASE t \in {"WALMART", "WALMART 027825"} -> 7 [] t = "01/15/2024" -> 0
      [] t = "SUBTOTAL 9.25" -> 8
      [] t = "TAX RATE 8.25%" -> 7 [] t \in {"TOTAL 10.00", "TOTAL 10.10", "TOTAL 100.00"} -> 5
      [] t \in {"ITEM 5.00", "PAID $5.00 20.00"} -> 4 [] OTHER -> 3
DigitCount(t) ==                                                             \* ocr.py:360
    CASE t = "WALMART" -> 0 [] t = "01/15/2024" -> 8 [] t = "TOTAL 100.00" -> 5
      [] t = "WALMART 027825" -> 6 [] t = "PAID $5.00 20.00" -> 7
      [] t \in {"TOTAL 10.00", "TOTAL 10.10", "TAX 30.00"} -> 4 [] OTHER -> 3

\* ocr.py:365  re.sub(r"\s+[0-9]{4,8}$", "", line).strip()
StripStoreNumber(t) == IF t = "WALMART 027825" THEN "WALMART" ELSE t

\* the last index at which the sequence of scores takes its maximum
LastMax(scores) ==
    CHOOSE i \in 1..Len(scores) :
        /\ \A k \in 1..Len(scores) : scores[k] <= scores[i]
        /\ \A k \in (i + 1)..Len(scores) : scores[k] < scores[i]

\* the first index at which the sequence of scores takes its maximum
\* (Python's max(..., key=...) keeps the first maximal element)
FirstMax(scores) ==
    CHOOSE i \in 1..Len(scores) :
        /\ \A k \in 1..Len(scores) : scores[k] <= scores[i]
        /\ \A k \in 1..(i - 1) : scores[k] < scores[i]

\* ocr.py:519-547  _extract_amount_from_line
ExtractAmountFromLine(t, prefer_non_percent, prefer_rightmost) ==
    LET candidates == AmountCandidates(t)
        non_percent == SelectSeq(candidates, LAMBDA c : ~c.is_percent)
        filtered1 == IF prefer_non_percent /\ non_percent # <<>> THEN non_percent ELSE candidates
        currency == SelectSeq(filtered1, LAMBDA c : c.has_currency)
        filtered == IF currency # <<>> THEN currency ELSE filtered1
    IN  IF filtered = <<>> THEN None
        ELSE IF prefer_rightmost THEN Some(filtered[Len(filtered)].value)
        ELSE Some(filtered[FirstMax([i \in 1..Len(filtered) |-> filtered[i].value])].value)

Reverse(s) == [i \in 1..Len(s) |-> s[Len(s) + 1 - i]]

\* ocr.py:563-572  _dedupe_lines: the first line of every text is kept
DedupeLines(lines) ==
    LET keep == {i \in 1..Len(lines) : \A k \in 1..(i - 1) : lines[k].text # lines[i].text}
        F[i \in 0..Len(lines)] ==
            IF i = 0 THEN <<>>
            ELSE IF i \in keep THEN Append(F[i - 1], lines[i]) ELSE F[i - 1]
    IN  F[Len(lines)]

\* any(k in low for k in keywords) for the two keyword lists that
\* _find_keyword_amount is called with
HasKeyword(t, keywords) ==
    IF keywords = "subtotal" THEN HasSubtotalKeyword(t) ELSE HasTaxKeyword(t)

\* ocr.py:466-473  _find_keyword_amount
FindKeywordAmount(lines, keywords) ==
    LET hits == {i \in 1..Len(lines) :
                   HasKeyword(lines[i].text, keywords)
                   /\ ExtractAmountFromLine(lines[i].text, TRUE, TRUE).some}
    IN  IF hits = {} THEN None
        ELSE ExtractAmountFromLine(
                 lines[CHOOSE i \in hits : \A k \in hits : i <= k].text, TRUE, TRUE)

Max(a, b) == IF a >= b THEN a ELSE b
Min(a, b) == IF a <= b THEN a ELSE b
Abs(a) == IF a >= 0 THEN a ELSE 0 - a

\* ocr.py:597-612, 619-628  _line_confidence over the map that
\* _build_line_confidence_map builds: the last entry of a text wins.
LineConfidence(t, entries) ==
    LET hits == {i \in 1..Len(entries) : entries[i].text = t}
    IN  IF hits = {} THEN 0
        ELSE entries[CHOOSE i \in hits : \A k \in hits : k <= i].conf

\* ocr.py:354-371  the tests of the loop body that let a line be returned
MerchantEligible(t) ==
    /\ ~Blacklisted(t)
    /\ Letters(t) >= 3
    /\ DigitCount(t) <= 8
    /\ DigitCount(t) > 4 => Letters(StripStoreNumber(t)) >= 3

\* ocr.py:349-374  parse_merchant: [merchant, conf]; none of the lines is
\* longer than the 200 characters the result is cut to
ParseMerchant(lines, entries) ==
    LET ok == {i \in 1..Len(lines) : i <= 12 /\ MerchantEligible(lines[i].text)}
        first == CHOOSE i \in ok : \A k \in ok : i <= k
    IN  IF lines = <<>> THEN [merchant |-> "", found |-> FALSE, conf |-> 0]
        ELSE IF ok = {}
        THEN [merchant |-> lines[1].text, found |-> TRUE,
              conf |-> LineConfidence(lines[1].text, entries)]
        ELSE [merchant |-> IF DigitCount(lines[first].text) > 4
                           THEN StripStoreNumber(lines[first].text)
                           ELSE lines[first].text,
              found |-> TRUE,
              conf |-> LineConfidence(lines[first].text, entries)]

MerchantConf(lines, entries) == ParseMerchant(lines, entries).conf

\* ocr.py:476-483 on a line without a date pattern: dateutil's fuzzy parse
\* finds a date in a line with numbers or it does not (library behaviour,
\* an input of the model); a line without digits has no date.
FuzzyDate(t, fuzzy) == fuzzy /\ DigitCount(t) > 0

\* ocr.py:377-397  parse_date: [found, conf]
ParseDate(lines, entries, fuzzy) ==
    LET ranked == SelectSeq(lines, LAMBDA l : HasDateKeyword(l.text))
                  \o SelectSeq(lines, LAMBDA l : ~HasDateKeyword(l.text))
        hits == {i \in 1..Len(ranked) :
                    MatchesDatePattern(ranked[i].text) \/ FuzzyDate(ranked[i].text, fuzzy)}
    IN  IF hits = {} THEN [found |-> FALSE, conf |-> 0]
        ELSE [found |-> TRUE,
              conf |-> LineConfidence(ranked[CHOOSE i \in hits : \A k \in hits : i <= k].text,
                                      entries)]

\* ocr.py:400-421  parse_sales_tax: [amount, conf]
ParseSalesTax(lines, entries) ==
    LET idxs == {i \in 1..Len(lines) :
                    HasTaxKeyword(lines[i].text)
                    /\ ExtractAmountFromLine(lines[i].text, TRUE, TRUE).some}
        cands == SelectSeq([i \in 1..Len(lines) |-> i], LAMBDA i : i \in idxs)
        score(i) == LineConfidence(lines[i].text, entries) + Max(0, 12000 - (i - 1) * 400)
    IN  IF cands = <<>> THEN [amount |-> None, conf |-> 0]
        ELSE LET i == cands[FirstMax([k \in 1..Len(cands) |-> score(cands[k])])]
             IN  [amount |-> ExtractAmountFromLine(lines[i].text, TRUE, TRUE),
                  conf |-> LineConfidence(lines[i].text, entries)]

ScanLimit == 80       \* ocr.py:434  reversed_lines[:80]

\* ocr.py:424-463  parse_total: [amount, conf, line] (line: the text of the
\* selected candidate)
ParseTotal(lines, entries) ==
    LET reversed_lines == Reverse(lines)
        subtotal == FindKeywordAmount(reversed_lines, "subtotal")
        tax == FindKeywordAmount(reversed_lines, "tax")
        idxs == {i \in 1..Len(reversed_lines) :
                    i <= ScanLimit /\ ExtractAmountFromLine(reversed_lines[i].text, TRUE, FALSE).some}
        cands == SelectSeq([i \in 1..Len(reversed_lines) |-> i], LAMBDA i : i \in idxs)
        amount(i) == ExtractAmountFromLine(reversed_lines[i].text, TRUE, FALSE).v
        delta(i) == Abs((subtotal.v + tax.v) - amount(i))
        score(i) ==
            LineConfidence(reversed_lines[i].text, entries)
            + (IF HasPriorityKeyword(reversed_lines[i].text) THEN 35000 ELSE 0)
            - (IF HasIgnoreKeyword(reversed_lines[i].text) THEN 18000 ELSE 0)
            + Max(0, 14000 - (i - 1) * 600)
            + (IF subtotal.some /\ tax.some
               THEN IF delta(i) <= 3 THEN 28000 ELSE IF delta(i) <= 20 THEN 8000 ELSE 0
               ELSE 0)
    IN  IF cands = <<>> THEN [amount |-> None, conf |-> 0, line |-> ""]
        ELSE LET i == cands[FirstMax([k \in 1..Len(cands) |-> score(cands[k])])]
             IN  [amount |-> Some(amount(i)),
                  conf |-> LineConfidence(reversed_lines[i].text, entries),
                  line |-> reversed_lines[i].text]

\* round(x, 2) for x given in units of 10^-5: the result in hundredths,
\* ties to even
Round2(x) ==
    LET q == x \div 1000
        r == x % 1000
    IN  IF r > 500 \/ (r = 500 /\ q % 2 = 1) THEN q + 1 ELSE q

\* the aggregation without the penalties for missing fields
ComputeOverallConfidenceNoPenalty(pass_conf, merchant_conf, date_conf, total_conf, tax_conf, has_total, has_date, has_tax) ==
    Max(0, Min(10000, Round2(32 * pass_conf + 14 * merchant_conf + 20 * date_conf
                            + 22 * total_conf + 12 * tax_conf)))

\* ocr.py:575-594  _compute_overall_confidence, in hundredths
ComputeOverallConfidence(pass_conf, merchant_conf, date_conf, total_conf, tax_conf, has_total, has_date, has_tax) ==
    LET weighted == 32 * pass_conf + 14 * merchant_conf + 20 * date_conf
                    + 22 * total_conf + 12 * tax_conf
                    - (IF has_total THEN 0 ELSE 2000000)
                    - (IF has_date THEN 0 ELSE 1000000)
                    - (IF has_tax THEN 0 ELSE 500000)
    IN  Max(0, Min(10000, Round2(weighted)))

\* a guardrail that discards nothing
TaxGuardrailOff(tax, total) == FALSE
\* ocr.py:310-311  the parsed tax is negative or above 25% of the total
TaxGuardrail(tax, total) == tax < 0 \/ 4 * tax > total

\* a fallback without the upper limit
SubtotalFallbackLoose(delta, total) == delta >= 0
\* ocr.py:318  the delta lies in [0, 25% of the total]
SubtotalFallback(delta, total) == delta >= 0 /\ 4 * delta <= total

\* ocr.py:302-305, 315  the four parsers and the subtotal lookup on the
\* deduplicated lines
ParseFields(lines, entries, fuzzy) ==
    [merchant |-> ParseMerchant(lines, entries),
     merchant_conf |-> MerchantConf(lines, entries),
     d |-> ParseDate(lines, entries, fuzzy),
     t |-> ParseTotal(lines, entries),
     x |-> ParseSalesTax(lines, entries),
     subtotal |-> FindKeywordAmount(lines, "subtotal")]

\* a guardrail that drops the amount but keeps the confidence of the candidate
ApplyGuardrailKeepsConf(p) ==
    IF p.x.amount.some /\ p.t.amount.some /\ TaxGuardrail(p.x.amount.v, p.t.amount.v)
    THEN [amount |-> None, conf |-> p.x.conf]
    ELSE p.x

\* ocr.py:309-312  the guardrail on the parsed tax: [amount, conf]
ApplyGuardrail(p) ==
    IF p.x.amount.some /\ p.t.amount.some /\ TaxGuardrail(p.x.amount.v, p.t.amount.v)
    THEN [amount |-> None, conf |-> 0]
    ELSE p.x

\* ocr.py:316-320  the subtotal fallback on the tax g left by the guardrail:
\* [amount, conf]
ApplyFallback(p, g) ==
    IF /\ ~g.amount.some /\ p.subtotal.some /\ p.t.amount.some
       /\ SubtotalFallback(p.t.amount.v - p.subtotal.v, p.t.amount.v)
    THEN [amount |-> Some(p.t.amount.v - p.subtotal.v), conf |-> Max(g.conf, 40000)]
    ELSE g

\* ocr.py:322-346  the returned fields for the parsed fields p, the tax g left
\* by the guardrail, the final tax f and the aggregated confidence; the
\* result carries the locals of the function next to the returned fields.
FieldsResult(p, g, f, confidence) ==
    [kind |-> "fields",
     has_date |-> p.d.found,
     total_amount |-> p.t.amount,
     sales_tax_amount |-> f.amount,
     extraction_confidence |-> confidence,
     needs_review |-> confidence < 7800,
     parsed_tax |-> p.x.amount,
     parsed_tax_conf |-> p.x.conf,
     guardrail_tax |-> g.amount,
     subtotal_amount |-> p.subtotal,
     total_line |-> p.t.line,
     merchant |-> p.merchant,
     merchant_conf |-> p.merchant_conf,
     date_conf |-> p.d.conf,
     total_conf |-> p.t.conf,
     tax_conf |-> f.conf]

\* ocr.py:307-346  extract_receipt_fields after the parsers
FieldsFromParsed(pass_conf, p, g, f) ==
    FieldsResult(p, g, f,
                 ComputeOverallConfidence(pass_conf, p.merchant_conf, p.d.conf, p.t.conf,
                                          f.conf, p.t.amount.some, p.d.found, f.amount.some))

WithGuardrail(pass_conf, p, g) == FieldsFromParsed(pass_conf, p, g, ApplyFallback(p, g))

\* ocr.py:286-346  extract_receipt_fields on an OCR result whose text is the
\* texts of ocr.lines (top, bottom and bottom-number passes empty), with
\* ocr.lines as its line confidences and ocr.pass_conf as avg_confidence.
ExtractReceiptFields(ocr) ==
    WithGuardrail(ocr.pass_conf,
                  ParseFields(DedupeLines(ocr.lines), ocr.lines, ocr.fuzzy),
                  ApplyGuardrail(ParseFields(DedupeLines(ocr.lines), ocr.lines, ocr.fuzzy)))

\* every OCR result of up to MaxLines lines
OcrLines == [text : LineTexts, conf : LineConfs]
OcrResults ==
    [kind : {"ocr"},
     lines : UNION {[1..n -> OcrLines] : n \in 0..MaxLines},
     pass_conf : PassConfs,
     fuzzy : BOOLEAN]

ExtractInit ==
    /\ IdleSystem
    /\ inp \in OcrResults
    /\ out = NoOutput

\* ocr.py:286  one call of extract_receipt_fields
extract_receipt_fields ==
    /\ inp.kind = "ocr"
    /\ out = NoOutput
    /\ out' = ExtractReceiptFields(inp)
    /\ UNCHANGED <<jobs, receipts, images, blobs, queue, stop, handle, lock, mainpc,
                   pc, cur, ghostVars, inp,
                   throttleVars, clock, authVars>>

ExtractNext == extract_receipt_fields

ExtractSpec == ExtractInit /\ [][ExtractNext]_vars

\* ---------------------------------------------- parse_total on long inputs
\* Inputs of parse_total: up to two lines with amounts, then a run of
\* "WALMART" lines (no amount), then up to one line with an amount; the run
\* lengths put the upper lines at both sides of the decay of the position
\* bonus (index 23, 24) and of the scan limit (index 79, 80).
MaxTop == 2
MaxBottom == 1
FillerCounts == {0, 1, 22, 23, 78, 79, 80}
AmountTexts ==
    {"SUBTOTAL 9.25", "TAX 0.75", "TAX 30.00", "TAX RATE 8.25%", "TOTAL 10.00",
     "TOTAL 10.10", "TOTAL 100.00", "ITEM 5.00", "PAID $5.00 20.00"}
AmountLines == [text : AmountTexts, conf : LineConfs]
Filler(n) == [i \in 1..n |-> [text |-> "WALMART", conf |-> 100000]]

ParseTotalInit ==
    /\ IdleSystem
    /\ \E a \in 0..MaxTop, b \in 0..MaxBottom, n \in FillerCounts :
       \E top \in [1..a -> AmountLines], bottom \in [1..b -> AmountLines] :
          inp = [kind |-> "lines", lines |-> top \o Filler(n) \o bottom]
    /\ out = NoOutput

\* ocr.py:424  one call of parse_total on the lines, with their confidences
\* as the confidence map
parse_total ==
    /\ inp.kind = "lines"
    /\ out = NoOutput
    /\ out' = [kind |-> "total", result |-> ParseTotal(inp.lines, inp.lines)]
    /\ UNCHANGED <<jobs, receipts, images, blobs, queue, stop, handle, lock, mainpc,
                   pc, cur, ghostVars, inp,
                   throttleVars, clock, authVars>>

ParseTotalNext == parse_total

ParseTotalSpec == ParseTotalInit /\ [][ParseTotalNext]_vars

\* ------------------------------------------------------- run_ocr (ocr.py)
\* One call of run_ocr.  inp holds what the call meets: the steps that hit an
\* internal error (faults), the outcome of the recognition engine whenever
\* it is called (engine), and the configuration flags.  out holds the
\* position of the call, the image it works on (the steps that have changed
\* it so far), the candidate list and the pass result of each candidate.
OcrSteps == {"open", "crop", "rotate", "perspective", "orient", "deskew", "variants"}
EngineOutcomes == {"ok", "RuntimeError", "OtherError"}

OcrCalls ==
    [kind : {"image"}, faults : SUBSET OcrSteps, engine : EngineOutcomes,
     auto_crop : BOOLEAN, perspective : BOOLEAN, deskew : BOOLEAN]

RunOcrInit ==
    /\ IdleSystem
    /\ inp \in OcrCalls
    /\ out = NoOutput

Raised == [kind |-> "run_ocr", step |-> "raised"]
Running(step) == out.kind = "run_ocr" /\ out.step = step
RunOcrFrame ==
    UNCHANGED <<jobs, receipts, images, blobs, queue, stop, handle, lock, mainpc,
                pc, cur, ghostVars, inp,
                   throttleVars, clock, authVars>>

\* the image after a step that catches its internal errors: unchanged on an
\* error, changed by the step otherwise
FailSoft(image, step, failed) == IF failed THEN image ELSE Append(image, step)

\* ocr.py:57-61  Image.open, exif_transpose, convert, resize: not guarded
run_ocr_open ==
    /\ inp.kind = "image" /\ out = NoOutput
    /\ out' = IF "open" \in inp.faults THEN Raised
              ELSE [kind |-> "run_ocr", step |-> "crop", image |-> <<>>,
                    candidates |-> <<>>, cand |-> 0, passes |-> <<>>]
    /\ RunOcrFrame

\* ocr.py:63-68 with 795-842  _auto_crop_receipt (try/except Exception); the
\* crop is a second candidate when it differs from the base image
_auto_crop_receipt ==
    /\ Running("crop")
    /\ LET cropped == FailSoft(out.image, "crop", "crop" \in inp.faults)
       IN  out' = [out EXCEPT
                     !.step = "rotate", !.cand = 1,
                     !.candidates = IF inp.auto_crop /\ cropped # out.image
                                    THEN <<out.image, cropped>> ELSE <<out.image>>]
    /\ RunOcrFrame

\* ocr.py:83-84 with 150-194  _pick_best_rotation (try/except Exception
\* around the rotations and the engine calls; _ocr_with_confidence itself
\* turns a RuntimeError into an empty pass)
_pick_best_rotation ==
    /\ Running("rotate")
    /\ out' = [out EXCEPT
                 !.step = "perspective",
                 !.image = FailSoft(out.candidates[out.cand], "rotate",
                                    "rotate" \in inp.faults \/ inp.engine = "OtherError")]
    /\ RunOcrFrame

\* ocr.py:85-86 with 719-794  _perspective_correct (try/except Exception)
_perspective_correct ==
    /\ Running("perspective")
    /\ out' = [out EXCEPT
                 !.step = "orient",
                 !.image = IF inp.perspective
                           THEN FailSoft(@, "perspective", "perspective" \in inp.faults)
                           ELSE @]
    /\ RunOcrFrame

\* ocr.py:87 with 696-706  _orient_image (try/except Exception around the
\* orientation detection of the engine)
_orient_image ==
    /\ Running("orient")
    /\ out' = [out EXCEPT
                 !.step = "deskew",
                 !.image = FailSoft(@, "orient",
                                    "orient" \in inp.faults \/ inp.engine # "ok")]
    /\ RunOcrFrame

\* ocr.py:88-89 with 878-944  _deskew_small_angles (try/except Exception)
_deskew_small_angles ==
    /\ Running("deskew")
    /\ out' = [out EXCEPT
                 !.step = "variants",
                 !.image = IF inp.deskew
                           THEN FailSoft(@, "deskew", "deskew" \in inp.faults)
                           ELSE @]
    /\ RunOcrFrame

\* ocr.py:91 with 947-974  _build_variants: no try, its error leaves run_ocr
_build_variants ==
    /\ Running("variants")
    /\ out' = IF "variants" \in inp.faults THEN Raised
              ELSE [out EXCEPT !.step = "passes"]
    /\ RunOcrFrame

\* ocr.py:631-641  _ocr_with_confidence: the engine's data, an empty pass on
\* RuntimeError (time-out, engine error), any other exception goes on
OcrWithConfidence(engine) ==
    CASE engine = "ok" -> "text"
      [] engine = "RuntimeError" -> "empty"
      [] OTHER -> "raise"

\* ocr.py:97-108  the passes over the variants and the three region passes
_ocr_with_confidence ==
    /\ Running("passes")
    /\ out' = IF OcrWithConfidence(inp.engine) = "raise" THEN Raised
              ELSE [out EXCEPT !.step = "next",
                               !.passes = Append(@, OcrWithConfidence(inp.engine))]
    /\ RunOcrFrame

\* ocr.py:82, 126-147  the next candidate, or the return of the best result
run_ocr_next ==
    /\ Running("next")
    /\ out' = IF out.cand < Len(out.candidates)
              THEN [out EXCEPT !.step = "rotate", !.cand = @ + 1]
              ELSE [out EXCEPT !.step = "returned"]
    /\ RunOcrFrame

RunOcrNext ==
    \/ run_ocr_open
    \/ _auto_crop_receipt
    \/ _pick_best_rotation
    \/ _perspective_correct
    \/ _orient_image
    \/ _deskew_small_angles
    \/ _build_variants
    \/ _ocr_with_confidence
    \/ run_ocr_next

RunOcrSpec == RunOcrInit /\ [][RunOcrNext]_vars

\* ------------------------------------------------ POST /auth/login (main.py)
\* The settings are read from the environment (main.py:59-61, auth.py:13);
\* they are scaled to the length of the clock.
LoginAttempts == 2    \* LOGIN_RATE_LIMIT_ATTEMPTS
LoginWindow == 2      \* LOGIN_RATE_LIMIT_WINDOW_SECONDS
LoginBlock == 2       \* LOGIN_RATE_LIMIT_BLOCK_SECONDS
SessionTtl == 2       \* SESSION_TTL_HOURS

\* main.py:198  the account both throttle keys name: the ordinary user
LoginUser == NumUsers

\* main.py:1107, 1116  the attempts that are still inside the window
InWindow(attempts, now) ==
    SelectSeq(attempts, LAMBDA ts : now - ts <= LoginWindow)

\* main.py:1099  blocked_until and blocked_until > now
Blocked(blocked_until, now) == blocked_until # NoTime /\ blocked_until > now

\* main.py:1113-1121  _record_failed_login: the two dictionaries afterwards
RecordFailedLogin(key, now) ==
    LET attempts == Append(InWindow(login_attempts[key], now), now)
    IN  IF Len(attempts) >= LoginAttempts
        THEN [attempts |-> [login_attempts EXCEPT ![key] = <<>>],
              blocked |-> [login_blocked_until EXCEPT ![key] = now + LoginBlock]]
        ELSE [attempts |-> [login_attempts EXCEPT ![key] = attempts],
              blocked |-> login_blocked_until]

\* auth.py:39-46  create_session: a fresh secret and its row
CreateSession(token, user_id, now) ==
    [sessions EXCEPT ![token] = [user_id |-> user_id, expires_at |-> now + SessionTtl]]

\* the upload pipeline takes no part in authentication
PipelineVars == <<jobs, receipts, images, blobs, queue, stop, handle, lock, mainpc,
                  pc, cur, ghostVars>>

LoginFrame == UNCHANGED <<PipelineVars, inp, users, tokens>>

\* main.py:192-196 and 1095-1110  the handler up to the end of
\* _enforce_login_rate_limit, which runs under _LOGIN_LOCK
login_enforce(r, key, password_ok) ==
    /\ flight[r] = NoRequest
    /\ IF Blocked(login_blocked_until[key], clock)
       THEN /\ out' = [kind |-> "login", key |-> key, status |-> 429,
                       password_ok |-> password_ok]
            /\ UNCHANGED <<login_attempts, login_blocked_until, flight>>
       ELSE /\ login_blocked_until' = [login_blocked_until EXCEPT ![key] = NoTime]
            /\ login_attempts' =
                   [login_attempts EXCEPT ![key] = InWindow(@, clock)]
            /\ flight' = [flight EXCEPT ![r] =
                   [stage |-> "checked", key |-> key, password_ok |-> password_ok]]
            /\ out' = out
    /\ UNCHANGED <<clock, sessions, issued>>
    /\ LoginFrame

\* main.py:198-213  the credentials are checked; _record_failed_login or
\* _clear_failed_login runs under _LOGIN_LOCK, then create_session
login_finish(r) ==
    /\ flight[r] # NoRequest
    /\ LET key == flight[r].key
           ok == /\ users[LoginUser].exists
                 /\ users[LoginUser].is_active
                 /\ flight[r].password_ok
       IN  IF ~ok
           THEN LET rec == RecordFailedLogin(key, clock)
                IN  /\ login_attempts' = rec.attempts
                    /\ login_blocked_until' = rec.blocked
                    /\ out' = [kind |-> "login", key |-> key, status |-> 401,
                               password_ok |-> flight[r].password_ok]
                    /\ UNCHANGED <<sessions, issued>>
           ELSE \E token \in SessionTokens \ issued :
                    /\ login_attempts' = [login_attempts EXCEPT ![key] = <<>>]
                    /\ login_blocked_until' =
                           [login_blocked_until EXCEPT ![key] = NoTime]
                    /\ sessions' = CreateSession(token, LoginUser, clock)
                    /\ issued' = issued \cup {token}
                    /\ out' = [kind |-> "login", key |-> key, status |-> 200,
                               password_ok |-> TRUE]
    /\ flight' = [flight EXCEPT ![r] = NoRequest]
    /\ UNCHANGED clock
    /\ LoginFrame

\* time.time() advances
Tick ==
    /\ clock < MaxTime
    /\ clock' = clock + 1
    /\ UNCHANGED <<PipelineVars, ioVars, throttleVars, authVars>>

LoginInit ==
    /\ IdleSystem
    /\ inp = NoInput
    /\ out = NoOutput

LoginNext ==
    \/ \E r \in Handlers, key \in ThrottleKeys, password_ok \in BOOLEAN :
          login_enforce(r, key, password_ok)
    \/ \E r \in Handlers : login_finish(r)
    \/ Tick

LoginSpec == LoginInit /\ [][LoginNext]_vars

\* ------------------------------------- sessions and API tokens (auth.py)
NoCookie == ""        \* the request carries no session cookie
Cookies == SessionTokens \cup {NoCookie}
Admin == 1            \* main.py:1064-1087  the id of the bootstrap admin

IsActive(u) == u \in UserIds /\ users[u].exists /\ users[u].is_active

\* the expiry time is not compared (not the source's behaviour)
GetUserBySessionTokenNoExpiry(raw_token, now) ==
    IF raw_token = NoCookie \/ sessions[raw_token] = NoSession
    THEN [user |-> 0, sessions |-> sessions]
    ELSE [user |-> IF IsActive(sessions[raw_token].user_id)
                   THEN sessions[raw_token].user_id ELSE 0,
          sessions |-> sessions]

\* auth.py:60-79  get_user_by_session_token: the user (0 = None) and the
\* session table afterwards
GetUserBySessionToken(raw_token, now) ==
    IF raw_token = NoCookie \/ sessions[raw_token] = NoSession
    THEN [user |-> 0, sessions |-> sessions]
    ELSE IF sessions[raw_token].expires_at < now
    THEN [user |-> 0, sessions |-> [sessions EXCEPT ![raw_token] = NoSession]]
    ELSE [user |-> IF IsActive(sessions[raw_token].user_id)
                   THEN sessions[raw_token].user_id ELSE 0,
          sessions |-> sessions]

\* auth.py:49-57  delete_session
DeleteSession(raw_token) ==
    IF raw_token = NoCookie THEN sessions
    ELSE [sessions EXCEPT ![raw_token] = NoSession]

\* the revoked column is not read (not the source's behaviour)
GetUserFromUploadTokenIgnoresRevoked(raw) ==
    IF raw \notin ApiTokens THEN 0
    ELSE IF ~tokens[raw].exists THEN 0
    ELSE IF tokens[raw].scope # "upload" THEN 0
    ELSE IF ~IsActive(tokens[raw].created_by_user_id) THEN 0
    ELSE IF users[tokens[raw].created_by_user_id].role # "admin" THEN 0
    ELSE tokens[raw].created_by_user_id

\* main.py:140-158  _get_user_from_upload_token (last_used_at is not modelled)
GetUserFromUploadToken(raw) ==
    IF raw \notin ApiTokens THEN 0
    ELSE IF ~tokens[raw].exists \/ tokens[raw].revoked THEN 0
    ELSE IF tokens[raw].scope # "upload" THEN 0
    ELSE IF ~IsActive(tokens[raw].created_by_user_id) THEN 0
    ELSE IF users[tokens[raw].created_by_user_id].role # "admin" THEN 0
    ELSE tokens[raw].created_by_user_id

\* the Authorization headers of the requests; "" = no header
Authorizations == {"", "Bearer t1", "bearer t1", "Bearer t9", "Basic t1", "Bearer"}

\* main.py:176  authorization.split(None, 1)
Parts(authorization) ==
    CASE authorization = "Bearer t1" -> <<"Bearer", "t1">>
      [] authorization = "bearer t1" -> <<"bearer", "t1">>
      [] authorization = "Bearer t9" -> <<"Bearer", "t9">>
      [] authorization = "Basic t1" -> <<"Basic", "t1">>
      [] authorization = "Bearer" -> <<"Bearer">>
      [] authorization = "" -> <<>>

\* main.py:177  parts[0].lower()
SchemeLower(scheme) == IF scheme = "Bearer" THEN "bearer" ELSE IF scheme = "Basic" THEN "basic" ELSE scheme

\* main.py:161-187  require_upload_auth: status, user and session table
RequireUploadAuth(authorization, session_token, now) ==
    LET s == GetUserBySessionToken(session_token, now)
        parts == Parts(authorization)
    IN  IF s.user # 0
        THEN IF users[s.user].role # "admin"
             THEN [status |-> 403, detail |-> "Admin required", user |-> 0,
                   sessions |-> s.sessions]
             ELSE [status |-> 200, detail |-> "session", user |-> s.user,
                   sessions |-> s.sessions]
        ELSE IF authorization = ""
        THEN [status |-> 401, detail |-> "Authentication required", user |-> 0,
              sessions |-> s.sessions]
        ELSE IF Len(parts) # 2 \/ SchemeLower(parts[1]) # "bearer"
        THEN [status |-> 401, detail |-> "Invalid Authorization header", user |-> 0,
              sessions |-> s.sessions]
        ELSE IF GetUserFromUploadToken(parts[2]) = 0
        THEN [status |-> 401, detail |-> "Invalid token", user |-> 0,
              sessions |-> s.sessions]
        ELSE [status |-> 200, detail |-> "token",
              user |-> GetUserFromUploadToken(parts[2]), sessions |-> s.sessions]

\* main.py:117-130  get_current_user and require_admin
RequireAdmin(session_token, now) ==
    LET s == GetUserBySessionToken(session_token, now)
    IN  IF s.user = 0
        THEN [status |-> 401, user |-> 0, sessions |-> s.sessions]
        ELSE IF users[s.user].role # "admin"
        THEN [status |-> 403, user |-> 0, sessions |-> s.sessions]
        ELSE [status |-> 200, user |-> s.user, sessions |-> s.sessions]

AuthFrame == UNCHANGED <<PipelineVars, throttleVars, clock, inp>>

\* auth.py:39-46  create_session, called by login for the active user it found
create_session(user_id) ==
    /\ IsActive(user_id)
    /\ \E token \in SessionTokens \ issued :
          /\ sessions' = CreateSession(token, user_id, clock)
          /\ issued' = issued \cup {token}
          /\ out' = [kind |-> "login", status |-> 200, user |-> user_id, cookie |-> token]
    /\ UNCHANGED <<users, tokens>>
    /\ AuthFrame

\* main.py:216-224  logout
logout(session_token) ==
    /\ sessions' = DeleteSession(session_token)
    /\ out' = [kind |-> "logout", status |-> 200, user |-> 0]
    /\ UNCHANGED <<users, tokens, issued>>
    /\ AuthFrame

\* main.py:117-124, 227  GET /auth/me behind get_current_user
get_current_user(session_token) ==
    /\ LET s == GetUserBySessionToken(session_token, clock)
       IN  /\ sessions' = s.sessions
           /\ out' = [kind |-> "me", status |-> IF s.user = 0 THEN 401 ELSE 200,
                      user |-> s.user, expired |-> s.sessions # sessions]
    /\ UNCHANGED <<users, tokens, issued>>
    /\ AuthFrame

\* main.py:161-187  a request behind require_upload_auth
require_upload_auth(authorization, session_token) ==
    /\ LET a == RequireUploadAuth(authorization, session_token, clock)
       IN  /\ sessions' = a.sessions
           /\ out' = [kind |-> "upload_auth", status |-> a.status,
                      detail |-> a.detail, user |-> a.user]
    /\ UNCHANGED <<users, tokens, issued>>
    /\ AuthFrame

\* main.py:657-659  (payload.scope or 'upload').strip().lower()
Scopes == {"", " Upload ", "read"}
NormalizeScope(scope) ==
    IF scope = "" \/ scope = " Upload " THEN "upload" ELSE scope

\* main.py:651-688  POST /admin/api-tokens
admin_create_api_token(session_token, scope) ==
    /\ LET a == RequireAdmin(session_token, clock)
       IN  /\ sessions' = a.sessions
           /\ IF a.status # 200
              THEN /\ out' = [kind |-> "create_token", status |-> a.status, user |-> 0]
                   /\ UNCHANGED <<tokens, issued>>
              ELSE IF NormalizeScope(scope) # "upload"
              THEN /\ out' = [kind |-> "create_token", status |-> 400, user |-> a.user]
                   /\ UNCHANGED <<tokens, issued>>
              ELSE \E raw \in ApiTokens \ issued :
                   /\ tokens' = [tokens EXCEPT ![raw] =
                          [exists |-> TRUE, revoked |-> FALSE,
                           scope |-> NormalizeScope(scope),
                           created_by_user_id |-> a.user]]
                   /\ issued' = issued \cup {raw}
                   /\ out' = [kind |-> "create_token", status |-> 200, user |-> a.user]
    /\ UNCHANGED users
    /\ AuthFrame

\* main.py:691-699  PATCH /admin/api-tokens/{token_id}/revoke
admin_revoke_api_token(session_token, token_id) ==
    /\ LET a == RequireAdmin(session_token, clock)
       IN  /\ sessions' = a.sessions
           /\ IF a.status # 200
              THEN /\ out' = [kind |-> "revoke", status |-> a.status, user |-> 0]
                   /\ tokens' = tokens
              ELSE IF ~tokens[token_id].exists
              THEN /\ out' = [kind |-> "revoke", status |-> 404, user |-> a.user]
                   /\ tokens' = tokens
              ELSE /\ out' = [kind |-> "revoke", status |-> 200, user |-> a.user]
                   /\ tokens' = [tokens EXCEPT ![token_id].revoked = TRUE]
    /\ UNCHANGED <<users, issued>>
    /\ AuthFrame

\* models.py:79-80  the columns role and is_active of the admin's row are
\* changed in the database (no handler of main.py writes them after creation)
db_update_user(is_active, role) ==
    /\ users[Admin] # [users[Admin] EXCEPT !.is_active = is_active, !.role = role]
    /\ users' = [users EXCEPT ![Admin].is_active = is_active, ![Admin].role = role]
    /\ UNCHANGED <<sessions, tokens, issued, out>>
    /\ AuthFrame

\* models.py:64  a token row of another scope ("Only support upload-scoped
\* tokens for now", main.py:146)
db_update_token_scope(token_id) ==
    /\ tokens[token_id].exists
    /\ tokens[token_id].scope = "upload"
    /\ tokens' = [tokens EXCEPT ![token_id].scope = "read"]
    /\ UNCHANGED <<users, sessions, issued, out>>
    /\ AuthFrame

AuthInit ==
    /\ IdleSystem
    /\ inp = NoInput
    /\ out = NoOutput

AuthNext ==
    \/ \E u \in UserIds : create_session(u)
    \/ \E c \in Cookies : logout(c)
    \/ \E c \in Cookies : get_current_user(c)
    \/ \E a \in Authorizations, c \in Cookies : require_upload_auth(a, c)
    \/ \E c \in Cookies, scope \in Scopes : admin_create_api_token(c, scope)
    \/ \E c \in Cookies, t \in ApiTokens : admin_revoke_api_token(c, t)
    \/ \E a \in BOOLEAN, role \in {"admin", "view"} : db_update_user(a, role)
    \/ \E t \in ApiTokens : db_update_token_scope(t)
    \/ Tick

AuthSpec == AuthInit /\ [][AuthNext]_vars

\* ================================================================ claims
NoDuplicates(s) == \A a, b \in 1..Len(s) : a # b => s[a] # s[b]

Terminal == {"completed", "failed"}

\* C1: whatever exception is raised while a popped job is handled, the worker
\* thread is not terminated by it, and every job marked failed carries an
\* error message of 1..2000 characters.
C1_ExceptionsNeverStopWorker ==
    /\ \A w \in Threads : outcome[w] # "crashed"
    /\ \A j \in JobIds : jobs[j].status = "failed" =>
           jobs[j].error_len >= 1 /\ jobs[j].error_len <= MaxErrorLen

\* C2: at most one worker thread is inside _process_upload_job at any time.
C2_AtMostOneThreadProcessing == Cardinality({w \in Threads : Inside(w)}) <= 1

\* C3: for every upload job at most one Receipt row and at most one
\* ReceiptImage row is ever created; a completed job has exactly one of each.
C3_AtMostOneReceiptPerJob ==
    \A j \in JobIds :
        /\ receipts[j] <= 1
        /\ images[j] <= 1
        /\ jobs[j].status = "completed" => receipts[j] = 1 /\ images[j] = 1

\* C4: a call of _process_upload_job for an id whose job is completed, failed
\* or gone returns at once and leaves the job rows, the Receipt and
\* ReceiptImage rows and the staged files unchanged.
C4_TerminalJobIsNoop ==
    [][\A w \in Threads :
          (/\ pc[w] = "call"
           /\ pc'[w] # "call"
           /\ ~(RowExists(cur[w]) /\ jobs[cur[w]].status \in {"queued", "processing"}))
          => /\ jobs' = jobs
             /\ receipts' = receipts
             /\ images' = images
             /\ blobs' = blobs
             /\ pc'[w] \in {"loop", "idle"}]_vars

\* a worker is back at the loop after a no-op call for a completed job whose
\* single Receipt is still the only one
C4_Witness ==
    \E w \in Threads :
        /\ pc[w] = "loop"
        /\ outcome[w] = "noop"
        /\ jobs[cur[w]].status = "completed"
        /\ receipts[cur[w]] = 1

\* C5: the status of a job only moves queued -> processing -> completed or
\* failed; a completed or failed job never changes status again and no job is
\* set back to queued.  (Creation and out-of-band deletion of the row are
\* not status changes of the worker.)
ForwardEdges ==
    {<<"none", "queued">>, <<"queued", "processing">>,
     <<"processing", "completed">>, <<"processing", "failed">>}

C5_StatusOnlyMovesForward ==
    [][\A j \in JobIds :
          \/ jobs'[j].status = jobs[j].status
          \/ jobs'[j].status = "deleted"
          \/ <<jobs[j].status, jobs'[j].status>> \in ForwardEdges]_vars

\* C6: ids leave the queue in the order in which they were appended (every
\* change of the queue appends at the tail or removes the head, which becomes
\* the popping thread's job), and popped jobs start processing in pop order.
C6_FifoProcessing ==
    [][/\ \/ queue' = queue
          \/ Len(queue') > Len(queue) /\ SubSeq(queue', 1, Len(queue)) = queue
          \/ /\ queue # <<>>
             /\ queue' = Tail(queue)
             /\ \E w \in Threads : pc'[w] = "call" /\ cur'[w] = Head(queue)
          \/ queue' = <<>> /\ mainpc' = "down"
       /\ \A w \in Threads :
             (pc[w] = "call" /\ pc'[w] # "call")
             => (Head(startOrder) = w \/ startOrder' = <<>>)]_vars

\* C7: the startup re-enqueue appends every queued/processing job exactly
\* once, the queue never holds the same id twice, and no worker has popped a
\* job while the re-enqueue is still outstanding.
C7_RequeueOnceBeforeConsuming ==
    [][/\ NoDuplicates(queue')
       /\ mainpc' = "starting" => \A w \in Threads : pc'[w] \in {"idle", "loop", "check", "pop", "waiting"}
       /\ (mainpc = "starting" /\ mainpc' = "up") =>
             \A j \in JobIds :
                 jobs[j].status \in {"queued", "processing"}
                 => Cardinality({i \in 1..Len(queue') : queue'[i] = j}) = 1]_vars

\* The premise of C8 and C9 ends: a stop is requested or the process goes
\* down, a worker thread was ended by an escaped exception (see C1), or the
\* job row was deleted out of band.
PremiseEnds(j) ==
    \/ stop
    \/ mainpc \notin {"starting", "up"}
    \/ \E w \in Threads : outcome[w] = "crashed"
    \/ ~RowExists(j)

\* the startup handler has started the only live worker thread and is about
\* to re-enqueue, as after a crash and restart of the process
FreshlyStarted ==
    /\ mainpc = "starting"
    /\ handle # NoThread
    /\ \A w \in Threads : Alive(w) <=> w = handle

\* C8: a job found with status queued or processing at a restart is
\* re-enqueued and eventually becomes completed or failed, and failed when
\* its staged file no longer exists, as long as the worker keeps running and
\* no stop or further crash happens.
C8_RestartRecovery ==
    \A j \in JobIds :
        /\ (FreshlyStarted /\ jobs[j].status \in {"queued", "processing"})
              ~> (jobs[j].status \in Terminal \/ PremiseEnds(j))
        /\ (FreshlyStarted /\ jobs[j].status \in {"queued", "processing"} /\ j \notin blobs)
              ~> (jobs[j].status = "failed" \/ PremiseEnds(j))

\* after a restart a job whose staged file was gone has been marked failed
\* with "Uploaded file is missing" by the only worker thread
C8_Witness ==
    \E j \in JobIds :
        /\ mainpc = "up"
        /\ handle # NoThread
        /\ \A w \in Threads : Alive(w) <=> w = handle
        /\ pc[handle] = "loop" /\ cur[handle] = j /\ outcome[handle] = "missing"
        /\ jobs[j].status = "failed"
        /\ jobs[j].error_len = MissingLen

\* C9: while the worker runs and no stop is requested, an id that is in the
\* queue is eventually popped and its job eventually becomes completed or
\* failed (no wake-up is lost).
C9_EnqueuedEventuallyProcessed ==
    \A j \in JobIds :
        /\ (mainpc = "up" /\ ~stop /\ j \in Range(queue))
              ~> (j \notin Range(queue) \/ PremiseEnds(j))
        /\ (mainpc = "up" /\ ~stop /\ j \in Range(queue))
              ~> (jobs[j].status \in Terminal \/ PremiseEnds(j))

\* a worker that was waiting on the empty queue has popped an uploaded id and
\* taken its job to completed
C9_Witness ==
    \E w \in Threads :
        /\ mainpc = "up" /\ ~stop
        /\ pc[w] = "loop"
        /\ outcome[w] = "completed"
        /\ jobs[cur[w]].status = "completed"
        /\ cur[w] \notin Range(queue)

\* C10 as stated: every call that takes a job to a terminal state deletes the
\* staged file exactly once, and the staged file of a completed or failed job
\* does not exist.
C10_StagedBlobDeletedExactlyOnce ==
    /\ \A w \in Threads :
          (pc[w] = "loop" /\ outcome[w] \in {"completed", "failed", "missing"})
          => dels[w] = 1
    /\ \A j \in JobIds : jobs[j].status \in Terminal => j \notin blobs

\* C10 amended: a call that took the job to completed or failed through the
\* try block has called _delete_receipt_image exactly once when it returns,
\* and the staged file is gone unless that unlink failed; a call that found
\* the staged file missing makes no deletion call.
C10_BlobDeletedWhenCallReturns ==
    \A w \in Threads :
        pc[w] = "loop" =>
            /\ outcome[w] \in {"completed", "failed"}
                  => dels[w] = 1 /\ (unlinkErr[w] \/ cur[w] \notin blobs)
            /\ outcome[w] = "missing" => dels[w] = 0 /\ cur[w] \notin blobs

\* a call that failed in OCR has returned with the job failed and the staged
\* file deleted by its one deletion call
C10_Witness ==
    \E w \in Threads :
        /\ pc[w] = "loop"
        /\ outcome[w] = "failed"
        /\ jobs[cur[w]].status = "failed"
        /\ dels[w] = 1
        /\ ~unlinkErr[w]
        /\ cur[w] \notin blobs

\* C11: the worker deletes a job's staged file only after the job's terminal
\* status is committed: no job that is still queued or processing in the
\* table has lost its staged file.
C11_BlobDeletedOnlyAfterTerminalCommit ==
    \A j \in JobIds : jobs[j].status \in {"queued", "processing"} => j \in blobs

\* C12: in every committed state a job is completed exactly when a Receipt
\* created for it is persisted and the job's receipt_id refers to it, and a
\* failed job has no Receipt and no ReceiptImage row.
C12_RecordsAtomicPerJob ==
    \A j \in JobIds :
        RowExists(j) =>
            /\ jobs[j].status = "completed"
                  <=> (receipts[j] >= 1 /\ jobs[j].receipt_id \in 1..receipts[j])
            /\ jobs[j].status = "failed" => receipts[j] = 0 /\ images[j] = 0

\* C13 as stated: once the stop event is set no worker pops another id.
C13_NoPopAfterStop ==
    [][\A w \in Threads : ~(stop /\ pc[w] # "call" /\ pc'[w] = "call")]_vars

\* C13 amended: a worker that tests the stop event while it is set (at the
\* loop test or under the lock) exits without popping, and leaves the queue
\* and the job rows as they are.
C13_NoPopOnceStopObserved ==
    [][\A w \in Threads :
          (stop /\ stop' /\ pc[w] \in {"loop", "check"} /\ pc'[w] # pc[w])
          => pc'[w] = "idle" /\ queue' = queue /\ jobs' = jobs]_vars

\* the worker has exited on the stop event while a queued job's id is still
\* in the queue
C13_Witness ==
    /\ stop
    /\ mainpc = "stopping"
    /\ handle # NoThread
    /\ pc[handle] = "idle"
    /\ outcome[handle] = "none"
    /\ queue # <<>>
    /\ jobs[Head(queue)].status = "queued"

\* C14: a job the worker had started processing when shutdown was requested
\* is not cancelled: the call of _process_upload_job that handles it ends
\* with the job completed or failed (or its row deleted), also when the
\* shutdown handler has given up waiting and the process goes on to exit.
\* (A kill of the process while the shutdown handler still runs is not the
\* claim's case.)
C14_InFlightJobNotCancelled ==
    [][\A w \in Threads :
          (/\ w \in atStop
           /\ Inside(w)
           /\ ~(pc'[w] \in InsidePcs)
           /\ ~(mainpc = "stopping" /\ mainpc' = "down" /\ ~stop'))
          => \/ jobs'[cur[w]].status \in Terminal
             \/ jobs'[cur[w]].status = "deleted"]_vars

\* C15: a submission that is neither an image nor a PDF (by content type or
\* by .pdf suffix), or whose bytes are empty, is answered with 400 and leaves
\* no job row, no staged file and no queue entry behind.
C15_RejectedUploadCreatesNothing ==
    [][(/\ <<inp, out>>' # <<inp, out>>
        /\ inp'.kind = "upload"
        /\ \/ inp'.empty
           \/ /\ inp'.content_type \notin {"image/png"}
              /\ inp'.content_type \notin {"application/pdf", "Application/PDF"}
              /\ inp'.name \notin {"scan.pdf", "scan.PDF"})
       => /\ out'.status = 400
          /\ jobs' = jobs
          /\ blobs' = blobs
          /\ queue' = queue
          /\ receipts' = receipts
          /\ images' = images]_vars

\* an empty image was rejected after an earlier submission had been accepted
\* and is still queued
C15_Witness ==
    /\ inp.kind = "upload"
    /\ inp.empty
    /\ inp.content_type = "image/png"
    /\ out.status = 400
    /\ jobs[1].status = "queued"
    /\ jobs[2].status = "none"
    /\ blobs = {1}
    /\ queue = <<1>>

\* C16: every extraction result that is missing the total, the purchase date
\* or the sales tax has needs_review = TRUE, whatever the pass and field
\* confidences are.
C16_MissingFieldNeedsReview ==
    out.kind = "fields" =>
        ((~out.total_amount.some \/ ~out.has_date \/ ~out.sales_tax_amount.some)
            => out.needs_review)

\* C17: the aggregated confidence lies in [0, 100] and is the weighted sum
\* 0.32*pass + 0.14*merchant + 0.20*date + 0.22*total + 0.12*tax, minus 20,
\* 10 and 5 for a missing total, date and tax, clamped to [0, 100] (as a
\* number of two decimals: the nearest one); needs_review is TRUE exactly
\* when that score is below 78.0.
C17_ConfidenceIsClampedWeightedSum ==
    out.kind = "fields" =>
        LET weighted == 32 * inp.pass_conf + 14 * out.merchant_conf + 20 * out.date_conf
                        + 22 * out.total_conf + 12 * out.tax_conf
                        - (IF out.total_amount.some THEN 0 ELSE 2000000)
                        - (IF out.has_date THEN 0 ELSE 1000000)
                        - (IF out.sales_tax_amount.some THEN 0 ELSE 500000)
            score == out.extraction_confidence
        IN  /\ score \in 0..10000
            /\ IF weighted <= 0 THEN score = 0
               ELSE IF weighted >= 10000000 THEN score = 10000
               ELSE Abs(1000 * score - weighted) <= 500
            /\ out.needs_review <=> score < 7800

\* an input without lines at pass confidence 60: the weighted sum 19.2 - 35
\* is negative and the score is clamped to 0
C17_Witness ==
    /\ inp.kind = "ocr" /\ inp.lines = <<>> /\ inp.pass_conf = 60000
    /\ out.kind = "fields"
    /\ out.extraction_confidence = 0
    /\ out.needs_review

\* C18: a parsed tax candidate that is negative or exceeds 25% of the
\* extracted total is discarded (without a subtotal line the result has no
\* tax and the tax confidence is 0); whenever the result has both a total and
\* a sales tax, 0 <= sales_tax <= 0.25 * total.
C18_TaxGuardrail ==
    out.kind = "fields" =>
        /\ (/\ out.parsed_tax.some /\ out.total_amount.some
            /\ (out.parsed_tax.v < 0 \/ 4 * out.parsed_tax.v > out.total_amount.v))
           => /\ ~out.guardrail_tax.some
              /\ out.sales_tax_amount # out.parsed_tax
              /\ ~out.subtotal_amount.some
                   => (~out.sales_tax_amount.some /\ out.tax_conf = 0)
        /\ (out.total_amount.some /\ out.sales_tax_amount.some)
           => /\ 0 <= out.sales_tax_amount.v
              /\ 4 * out.sales_tax_amount.v <= out.total_amount.v

\* total 100.00 and a tax line of 30.00: the candidate is discarded
C18_Witness ==
    /\ inp.kind = "ocr"
    /\ inp.lines = <<[text |-> "TAX 30.00", conf |-> 100000],
                     [text |-> "TOTAL 100.00", conf |-> 100000]>>
    /\ out.kind = "fields"
    /\ out.total_amount = Some(10000)
    /\ out.parsed_tax = Some(3000)
    /\ ~out.sales_tax_amount.some
    /\ out.tax_conf = 0

\* C19: when no tax is left after parsing but a subtotal-keyword amount and a
\* total both exist and total - subtotal lies in [0, 25% of the total], the
\* result has tax = total - subtotal with a tax confidence of at least 40;
\* when the delta is outside that range, or the subtotal or the total is
\* missing, the tax stays None.
C19_SubtotalFallback ==
    (out.kind = "fields" /\ ~out.guardrail_tax.some) =>
        LET delta == out.total_amount.v - out.subtotal_amount.v
        IN  IF /\ out.subtotal_amount.some /\ out.total_amount.some
               /\ 0 <= delta /\ 4 * delta <= out.total_amount.v
            THEN out.sales_tax_amount = Some(delta) /\ out.tax_conf >= 40000
            ELSE ~out.sales_tax_amount.some

\* subtotal 9.25, total 10.00, no tax line: the tax is 0.75 at confidence 40
C19_Witness ==
    /\ inp.kind = "ocr"
    /\ inp.lines = <<[text |-> "SUBTOTAL 9.25", conf |-> 100000],
                     [text |-> "TOTAL 10.00", conf |-> 100000]>>
    /\ out.kind = "fields"
    /\ ~out.parsed_tax.some
    /\ out.subtotal_amount = Some(925)
    /\ out.total_amount = Some(1000)
    /\ out.sales_tax_amount = Some(75)
    /\ out.tax_conf = 40000

\* the OCR result without the line of text t and its confidence entries
WithoutLine(ocr, t) == [ocr EXCEPT !.lines = SelectSeq(@, LAMBDA l : l.text # t)]

\* C20: removing the line that contains the total, all other lines and
\* confidences unchanged, never increases the aggregated confidence that
\* extract_receipt_fields returns.
C20_RemovingTotalLineNeverRaisesConfidence ==
    (out.kind = "fields" /\ out.total_amount.some) =>
        ExtractReceiptFields(WithoutLine(inp, out.total_line)).extraction_confidence
            <= out.extraction_confidence

\* the texts of the lines of an OCR result
Texts(ocr) == {ocr.lines[i].text : i \in 1..Len(ocr.lines)}

\* C21: percent-suffixed amount tokens are excluded from amount extraction: a
\* line whose only amount token carries a trailing % ("TAX RATE 8.25%")
\* yields no amount, so with no other tax line (and no subtotal to derive a
\* tax from) the result has no sales tax, and needs_review is TRUE if the
\* total is absent as well; on a line with currency-marked and unmarked
\* tokens only the currency-marked ones are eligible.
C21_PercentTokensExcluded ==
    out.kind = "fields" =>
        /\ (/\ "TAX RATE 8.25%" \in Texts(inp)
            /\ \A t \in Texts(inp) : HasTaxKeyword(t) => t = "TAX RATE 8.25%"
            /\ \A t \in Texts(inp) : ~HasSubtotalKeyword(t))
           => /\ ~out.parsed_tax.some
              /\ ~out.sales_tax_amount.some
              /\ out.total_line # "TAX RATE 8.25%"
              /\ ~out.total_amount.some => out.needs_review
        /\ out.total_line = "PAID $5.00 20.00" => out.total_amount = Some(500)

\* C22: the tax guardrail runs before the subtotal fallback: when the parsed
\* tax is rejected by the guardrail and a subtotal exists with
\* total - subtotal in [0, 25% of the total], the returned tax is
\* total - subtotal with a tax confidence of exactly 40; when the parsed tax
\* passes the guardrail the fallback does not change it, also when it differs
\* from total - subtotal.
C22_GuardrailBeforeFallback ==
    (out.kind = "fields" /\ out.parsed_tax.some) =>
        LET rejected == out.total_amount.some /\ 4 * out.parsed_tax.v > out.total_amount.v
            delta == out.total_amount.v - out.subtotal_amount.v
        IN  /\ (/\ rejected /\ out.subtotal_amount.some
                /\ 0 <= delta /\ 4 * delta <= out.total_amount.v)
               => (out.sales_tax_amount = Some(delta) /\ out.tax_conf = 40000)
            /\ ~rejected
               => (out.sales_tax_amount = out.parsed_tax /\ out.tax_conf = out.parsed_tax_conf)

\* subtotal 9.25, tax line 30.00 at confidence 100, total 10.00: the
\* candidate is rejected and the tax is 0.75 at confidence 40
C22_Witness ==
    /\ inp.kind = "ocr"
    /\ inp.lines = <<[text |-> "SUBTOTAL 9.25", conf |-> 100000],
                     [text |-> "TAX 30.00", conf |-> 100000],
                     [text |-> "TOTAL 10.00", conf |-> 100000]>>
    /\ out.kind = "fields"
    /\ out.parsed_tax = Some(3000) /\ out.parsed_tax_conf = 100000
    /\ out.total_amount = Some(1000)
    /\ out.sales_tax_amount = Some(75)
    /\ out.tax_conf = 40000

\* C23: parse_total considers only the last 80 lines, scanned bottom-up
\* (index 0 = last line), and returns the amount and the line confidence of
\* the candidate with the highest score = line confidence + 35 with a
\* priority keyword - 18 with an ignore keyword + max(0, 14 - 0.6 * index)
\* + 28 if within 0.03 of subtotal + tax (else + 8 if within 0.20); on an
\* exact tie the candidate nearest the bottom wins; without an amount on a
\* scanned line the result is (None, 0).
C23_TotalIsBestScoredOfLast80 ==
    out.kind = "total" =>
        LET L == inp.lines
            N == Len(L)
            Amount(p) == ExtractAmountFromLine(L[p].text, TRUE, FALSE)
            Keyed(p, kw) == HasKeyword(L[p].text, kw)
                            /\ ExtractAmountFromLine(L[p].text, TRUE, TRUE).some
            Lowest(kw) == CHOOSE p \in 1..N :
                              Keyed(p, kw) /\ \A q \in (p + 1)..N : ~Keyed(q, kw)
            HasBoth == (\E p \in 1..N : Keyed(p, "subtotal")) /\ (\E p \in 1..N : Keyed(p, "tax"))
            Sum == ExtractAmountFromLine(L[Lowest("subtotal")].text, TRUE, TRUE).v
                   + ExtractAmountFromLine(L[Lowest("tax")].text, TRUE, TRUE).v
            Conf(p) == LineConfidence(L[p].text, L)
            Score(p) ==
                Conf(p)
                + (IF HasPriorityKeyword(L[p].text) THEN 35000 ELSE 0)
                - (IF HasIgnoreKeyword(L[p].text) THEN 18000 ELSE 0)
                + (IF 600 * (N - p) < 14000 THEN 14000 - 600 * (N - p) ELSE 0)
                + (IF ~HasBoth THEN 0
                   ELSE IF Abs(Sum - Amount(p).v) <= 3 THEN 28000
                   ELSE IF Abs(Sum - Amount(p).v) <= 20 THEN 8000 ELSE 0)
            Scanned == {p \in 1..N : N - p < 80 /\ Amount(p).some}
        IN  IF Scanned = {}
            THEN out.result.amount = None /\ out.result.conf = 0
            ELSE \E p \in Scanned :
                    /\ \A q \in Scanned : Score(q) <= Score(p)
                    /\ \A q \in Scanned : q > p => Score(q) < Score(p)
                    /\ out.result.amount = Amount(p)
                    /\ out.result.conf = Conf(p)

\* two amount lines above 79 lines without amount: the upper one is the 81st
\* line from the bottom and is not scanned, the lower one is the total
C23_WitnessLimit ==
    /\ inp.kind = "lines" /\ Len(inp.lines) = 81
    /\ inp.lines[1] = [text |-> "TOTAL 100.00", conf |-> 100000]
    /\ inp.lines[2] = [text |-> "ITEM 5.00", conf |-> 40000]
    /\ out.kind = "total"
    /\ out.result.amount = Some(500)
    /\ out.result.conf = 40000

\* C24: merchant selection over the first 12 candidate lines: a line with
\* more than 4 digits is chosen only when a trailing store-number suffix was
\* stripped from it leaving at least 3 letters (the stripped text is
\* returned); every other line with more than 4 digits is skipped; the first
\* qualifying line wins, and if none qualifies the first candidate line is
\* returned.
C24_MerchantSkipsDigitLines ==
    out.kind = "fields" =>
        LET lines == DedupeLines(inp.lines)
            Qualifies(t) ==
                /\ ~Blacklisted(t)
                /\ Letters(t) >= 3
                /\ DigitCount(t) <= 8
                /\ DigitCount(t) > 4 => (StripStoreNumber(t) # t /\ Letters(StripStoreNumber(t)) >= 3)
            Q == {i \in 1..Len(lines) : i <= 12 /\ Qualifies(lines[i].text)}
        IN  IF lines = <<>> THEN ~out.merchant.found
            ELSE IF Q = {} THEN out.merchant.merchant = lines[1].text
            ELSE out.merchant.merchant =
                     StripStoreNumber(lines[CHOOSE i \in Q : \A k \in Q : i <= k].text)

\* C25: every image-normalization step is fail-soft: on an internal error
\* of orientation/downscale, auto-crop, rotation selection, perspective
\* correction, skew correction, fine deskew or variant generation the step
\* leaves the image as it was and run_ocr continues; a failure or time-out of
\* the recognition engine gives an empty pass and never leaves run_ocr.
C25_NormalizationStepsFailSoft ==
    out.kind = "run_ocr" =>
        /\ out.step # "raised"
        /\ out.step = "returned" =>
              /\ \A i \in 1..Len(out.candidates) : \A k \in 1..Len(out.candidates[i]) :
                    out.candidates[i][k] \notin inp.faults
              /\ \A k \in 1..Len(out.image) : out.image[k] \notin inp.faults
              /\ inp.engine # "ok" => \A i \in 1..Len(out.passes) : out.passes[i] = "empty"

\* C26: enqueue never waits for OCR: a worker holds the queue mutex only
\* while it tests, waits for and pops the queue, and has released it before it
\* starts processing the popped job, so the mutex is never held by a thread
\* that is handling a job.
C26_QueueLockNotHeldWhileProcessing ==
    /\ lock # NoThread => pc[lock] \in {"check", "pop"}
    /\ \A w \in Threads : (pc[w] = "call" \/ Inside(w)) => lock # w

\* job 1 is in OCR, the mutex is free, and job 2 has been appended meanwhile
C26_Witness ==
    \E w \in Threads :
        /\ pc[w] = "ocr" /\ cur[w] = 1
        /\ jobs[1].status = "processing"
        /\ lock = NoThread
        /\ jobs[2].status = "queued"
        /\ queue = <<2>>

\* C27: in every committed job state the worker produces: status failed
\* implies a non-empty error message of at most 2000 characters, a completion
\* timestamp and no receipt reference; status processing or completed implies
\* a null error message and a start timestamp; status completed implies a
\* receipt reference and a completion timestamp.
C27_JobRowConsistentWithStatus ==
    \A j \in JobIds :
        /\ jobs[j].status = "failed"
           => /\ jobs[j].error_len \in 1..MaxErrorLen
              /\ jobs[j].completed_at
              /\ jobs[j].receipt_id = 0
        /\ jobs[j].status \in {"processing", "completed"}
           => /\ jobs[j].error_len = 0
              /\ jobs[j].started_at
        /\ jobs[j].status = "completed"
           => /\ jobs[j].receipt_id # 0
              /\ jobs[j].completed_at

\* handler r answers its login request in this step, after the credential check
Answers(r) == flight[r] # NoRequest /\ flight'[r] = NoRequest

\* C28: login throttling per (client IP, username) key.  A failed login that
\* brings the attempts recorded within the window to LOGIN_RATE_LIMIT_ATTEMPTS
\* blocks the key until now + block duration and resets its attempt list;
\* while a key is blocked no login for it gets its credentials checked (every
\* one is answered 429); a successful login clears the attempt list and the
\* block of its key; the entries of the other keys are not touched.
C28_LoginThrottling ==
    [][\A r \in Handlers : Answers(r) =>
          LET key == flight[r].key
          IN  /\ ~Blocked(login_blocked_until[key], clock)
              /\ out'.status = 401 =>
                    IF Len(InWindow(login_attempts[key], clock)) + 1 >= LoginAttempts
                    THEN /\ login_blocked_until'[key] = clock + LoginBlock
                         /\ login_attempts'[key] = <<>>
                    ELSE /\ login_blocked_until'[key] = login_blocked_until[key]
                         /\ Len(login_attempts'[key]) < LoginAttempts
              /\ out'.status = 200 =>
                    /\ login_blocked_until'[key] = NoTime
                    /\ login_attempts'[key] = <<>>
              /\ \A other \in ThrottleKeys \ {key} :
                    /\ login_blocked_until'[other] = login_blocked_until[other]
                    /\ login_attempts'[other] = login_attempts[other]]_vars

\* C28 without the clause on logins in progress: what is recorded and cleared
C28_RecordAndClear ==
    [][\A r \in Handlers : Answers(r) =>
          LET key == flight[r].key
          IN  /\ out'.status = 401 =>
                    IF Len(InWindow(login_attempts[key], clock)) + 1 >= LoginAttempts
                    THEN /\ login_blocked_until'[key] = clock + LoginBlock
                         /\ login_attempts'[key] = <<>>
                    ELSE /\ login_blocked_until'[key] = login_blocked_until[key]
                         /\ Len(login_attempts'[key]) < LoginAttempts
              /\ out'.status = 200 =>
                    /\ login_blocked_until'[key] = NoTime
                    /\ login_attempts'[key] = <<>>
              /\ \A other \in ThrottleKeys \ {key} :
                    /\ login_blocked_until'[other] = login_blocked_until[other]
                    /\ login_attempts'[other] = login_attempts[other]]_vars

\* a request that arrives while its key is blocked goes no further than
\* _enforce_login_rate_limit
C28_BlockedAtArrival ==
    [][\A r \in Handlers :
          (flight[r] = NoRequest /\ flight'[r] # NoRequest) =>
              ~Blocked(login_blocked_until[flight'[r].key], clock)]_vars

\* the session row of a cookie can authenticate at time now
ValidSession(c, now) ==
    /\ c # NoCookie
    /\ sessions[c] # NoSession
    /\ sessions[c].expires_at >= now
    /\ IsActive(sessions[c].user_id)

\* C29: a lookup by session token returns a user only if a session record of
\* the token exists, has not expired and its user is active, and then it
\* returns that user and leaves the session records as they are; a lookup
\* with an expired session returns no user and deletes that record and no
\* other; a session record that was deleted never exists again, so its token
\* never authenticates again.
C29_SessionAuthenticates ==
    [][/\ \A c \in Cookies : (out'.kind = "me" /\ get_current_user(c)) =>
             /\ out'.status = 200 <=> ValidSession(c, clock)
             /\ out'.status = 200 =>
                   /\ out'.user = sessions[c].user_id
                   /\ sessions' = sessions
             /\ (c # NoCookie /\ sessions[c] # NoSession
                    /\ sessions[c].expires_at < clock) =>
                   /\ out'.user = 0
                   /\ sessions' = [sessions EXCEPT ![c] = NoSession]
             /\ out'.status # 200 => out'.user = 0
       /\ \A t \in SessionTokens :
             (t \in issued /\ sessions[t] = NoSession) => sessions'[t] = NoSession]_vars

\* a lookup has just met an expired session and deleted it, while another
\* session is still valid
C29_Witness ==
    /\ out.kind = "me"
    /\ out.status = 401
    /\ out.expired
    /\ \E t \in issued \cap SessionTokens : sessions[t] = NoSession
    /\ \E t \in SessionTokens : ValidSession(t, clock)

\* the token an Authorization header presents with the Bearer scheme, if any
Presented(a) ==
    CASE a = "Bearer t1" -> "t1"
      [] a = "bearer t1" -> "t1"
      [] a = "Bearer t9" -> "t9"
      [] OTHER -> "none"

\* token t is not revoked, has scope upload and was created by an active admin
UsableToken(t) ==
    /\ t \in ApiTokens
    /\ tokens[t].exists
    /\ ~tokens[t].revoked
    /\ tokens[t].scope = "upload"
    /\ IsActive(tokens[t].created_by_user_id)
    /\ users[tokens[t].created_by_user_id].role = "admin"

====
